---- MODULE Spec2Model ----
(***************************************************************************)
(* effective-state: atoms, computeds, effects, action and untracked.       *)
(*                                                                         *)
(* The library is a set of re-entrant procedures over process-wide state   *)
(* (currentEffect, pendingEffects, flushing, writeDepth, effectRefCounts)  *)
(* and per-object state (an atom's value and listeners, an Effect's        *)
(* cleanup).  Each procedure is an operator from a state record to a state *)
(* record, computed as the code computes it; the operators call each other *)
(* the way the procedures do.  An action of the model is one call the      *)
(* program makes from outside any effect: a write, an action block, an     *)
(* effect creation, a subscription, an unsubscription.                     *)
(*                                                                         *)
(* A small fixed set of client programs (scenario) supplies the cells, the *)
(* derivations and the effect bodies; their statements are data that the   *)
(* operator Exec interprets.                                               *)
(*                                                                         *)
(* An exception is the flag thrown of the state record: while it is set    *)
(* the statements that follow are skipped, finally blocks still run, and   *)
(* the program catches it when its call returns.                           *)
(***************************************************************************)
EXTENDS Integers, Sequences, FiniteSets, TLC

\* ------------------------------------------------------------------ bounds
MaxVal == 1        \* numeric inputs are 0..MaxVal
MaxWrites == 2     \* writes inside one action block
MaxSubs == 2       \* manual subscriptions made on a scenario
MaxRuns == 8       \* effect runs in one call, and
MaxNest == 2       \* runs of one effect inside one another; a call that needs
                   \* more of either never returns

\* ------------------------------------------------------------------ values
\* JavaScript values the cells hold: small naturals, NaN, -0 and undefined.
NaN == -1
NegZero == -2
Undefined == -3
None == "none"     \* currentEffect = null

Nums == 0..MaxVal
Specials == {NaN, NegZero}

\* Mutant: === in place of Object.is.
ObjectIs_strict(x, y) == IF x = NaN \/ y = NaN THEN FALSE
                         ELSE IF x \in {0, NegZero} /\ y \in {0, NegZero} THEN TRUE
                         ELSE x = y

\* Object.is: same-value equality (NaN is NaN, +0 is not -0).
ObjectIs(x, y) == x = y

\* JavaScript truthiness of a value used as a condition.
Truthy(x) == x \notin {0, NegZero, NaN, Undefined}

\* x * k for a positive literal k.
Mul(x, k) == IF x \in {NaN, Undefined} THEN NaN
             ELSE IF x = NegZero THEN NegZero
             ELSE x * k

\* x + y.
Add(x, y) == IF x \in {NaN, Undefined} \/ y \in {NaN, Undefined} THEN NaN
             ELSE IF x = NegZero THEN y
             ELSE IF y = NegZero THEN x
             ELSE x + y

\* ---------------------------------------------------------------- programs
Scenarios == {"quick", "diamond", "pair", "same", "cond", "untracked", "subs",
              "dispose", "nested", "nestedKidFirst", "memo",
              "current", "throws", "grow", "again", "loop"}

\* Statements of an effect body or derivation.
Rd(c) == [op |-> "read", cell |-> c, t |-> c, f |-> c, fn |-> "-"]
RdU(c) == [op |-> "readU", cell |-> c, t |-> c, f |-> c, fn |-> "-"]
RdC(c) == [op |-> "current", cell |-> c, t |-> c, f |-> c, fn |-> "-"]
Br(c, a, b) == [op |-> "branch", cell |-> c, t |-> a, f |-> b, fn |-> "-"]
St(c, g) == [op |-> "set", cell |-> c, t |-> c, f |-> c, fn |-> g]
Lg == [op |-> "log", cell |-> "-", t |-> "-", f |-> "-", fn |-> "-"]
Ch == [op |-> "child", cell |-> "-", t |-> "-", f |-> "-", fn |-> "-"]
\* if (the value read last) throw new Error()
Th == [op |-> "throwIf", cell |-> "-", t |-> "-", f |-> "-", fn |-> "-"]

\* Statements of the block of an action call: a write, a call of a disposer,
\* a throw, a read of a computed.
Wr(c, v) == [op |-> "write", cell |-> c, val |-> v, eff |-> None]
Dp(e) == [op |-> "dispose", cell |-> "-", val |-> 0, eff |-> e]
Tw == [op |-> "throw", cell |-> "-", val |-> 0, eff |-> None]
Gt(c) == [op |-> "get", cell |-> c, val |-> 0, eff |-> None]

\* Plain cells (atom(initial)) of a scenario, all created with value 0.
Atoms(sc) ==
    CASE sc = "quick" -> {"count"}
      [] sc = "diamond" -> {"a"}
      [] sc = "pair" -> {"x", "y"}
      [] sc = "same" -> {"z"}
      [] sc = "cond" -> {"condition", "p", "q"}
      [] sc = "untracked" -> {"enabled", "n"}
      [] sc = "subs" -> {"s"}
      [] sc = "dispose" -> {"g"}
      [] sc \in {"nested", "nestedKidFirst"} -> {"trigger"}
      [] sc = "memo" -> {"m"}
      [] sc = "current" -> {"n"}
      [] sc = "throws" -> {"t"}
      [] sc = "grow" -> {"w"}
      [] sc = "again" -> {"r"}
      [] sc = "loop" -> {"u"}

\* Computeds of a scenario in creation order.
Computeds(sc) ==
    CASE sc = "quick" -> <<"double">>
      [] sc = "diamond" -> <<"b", "c", "d">>
      [] sc = "memo" -> <<"on">>
      [] sc = "current" -> <<"twice">>
      [] OTHER -> <<>>

ComputedCells(sc) == {Computeds(sc)[i] : i \in 1..Len(Computeds(sc))}
Cells(sc) == Atoms(sc) \cup ComputedCells(sc)
AllComputeds == UNION {ComputedCells(sc) : sc \in Scenarios}

\* The private effect of a computed.
EffectOf(c) ==
    CASE c = "double" -> "fxDouble"
      [] c = "b" -> "fxB"
      [] c = "c" -> "fxC"
      [] c = "d" -> "fxD"
      [] c = "on" -> "fxOn"
      [] c = "twice" -> "fxTwice"

\* Effects the program creates with effect(fn).
UserEffects(sc) ==
    CASE sc = "quick" -> {"E"}
      [] sc = "diamond" -> {"spyD"}
      [] sc = "pair" -> {"F"}
      [] sc = "same" -> {"Z"}
      [] sc = "cond" -> {"G"}
      [] sc = "untracked" -> {"H"}
      [] sc = "subs" -> {}
      [] sc = "dispose" -> {"D"}
      [] sc = "nested" -> {"outer"}
      [] sc = "nestedKidFirst" -> {"outerKidFirst"}
      [] sc = "memo" -> {"K"}
      [] sc = "current" -> {"P"}
      [] sc = "throws" -> {"T", "V"}
      [] sc = "grow" -> {}
      [] sc = "again" -> {"R"}
      [] sc = "loop" -> {"L"}

\* Effects whose disposer the program keeps and calls.
Disposable(sc) ==
    CASE sc = "dispose" -> {"D"}
      [] sc = "nested" -> {"outer"}
      [] sc = "nestedKidFirst" -> {"outerKidFirst"}
      [] sc = "again" -> {"R"}
      [] OTHER -> {}

\* The Effect objects made by the effect(fn) call inside a parent's body: each
\* run of the parent makes a new one, named in the order of KidNames.
KidNames == <<"inner1", "inner2", "inner3">>
AllKids == {KidNames[i] : i \in 1..Len(KidNames)}
Kids(sc) == IF sc \in {"nested", "nestedKidFirst"} THEN AllKids ELSE {}

Effects(sc) ==
    UserEffects(sc) \cup {EffectOf(c) : c \in ComputedCells(sc)} \cup Kids(sc)

\* The cells a derivation reads, in order, and the function it applies.
Reads(c) ==
    CASE c = "double" -> <<"count">>
      [] c = "b" -> <<"a">>
      [] c = "c" -> <<"a">>
      [] c = "d" -> <<"b", "c">>
      [] c = "on" -> <<"m">>
      [] c = "twice" -> <<"n">>

Fn(c) ==
    CASE c = "double" -> "dbl"
      [] c = "b" -> "dbl"
      [] c = "c" -> "tpl"
      [] c = "d" -> "sum"
      [] c = "on" -> "bool"
      [] c = "twice" -> "dbl"

Apply(g, vals) ==
    CASE g = "dbl" -> Mul(vals[1], 2)
      [] g = "tpl" -> Mul(vals[1], 3)
      [] g = "sum" -> Add(vals[1], vals[2])
      [] g = "bool" -> IF Truthy(vals[1]) THEN 1 ELSE 0
      [] g = "more" -> IF Truthy(vals[1]) THEN Add(vals[1], 1) ELSE vals[1]

\* computed(fn) creates effect(() => internal(fn())): fn's reads, then the write.
Derive(c) == [i \in 1..Len(Reads(c)) |-> Rd(Reads(c)[i])] \o <<St(c, Fn(c))>>

\* Body of an effect.
Body(e) ==
    CASE e = "fxDouble" -> Derive("double")
      [] e = "fxB" -> Derive("b")
      [] e = "fxC" -> Derive("c")
      [] e = "fxD" -> Derive("d")
      [] e = "fxOn" -> Derive("on")
      [] e = "K" -> <<Rd("on"), Lg>>
      [] e = "fxTwice" -> Derive("twice")
      [] e = "P" -> <<RdC("twice"), RdC("n"), Lg>>
      [] e = "T" -> <<Rd("t"), Th, Lg>>
      [] e = "V" -> <<Rd("t"), Lg>>
      [] e = "E" -> <<Rd("count"), Rd("double"), Lg>>
      [] e = "spyD" -> <<Rd("d"), Lg>>
      [] e = "F" -> <<Rd("x"), Rd("y"), Lg>>
      [] e = "G" -> <<Br("condition", "p", "q"), Lg>>
      [] e = "H" -> <<RdU("enabled"), Rd("n"), Lg>>
      [] e = "Z" -> <<Rd("z"), Lg>>
      [] e = "D" -> <<Rd("g"), Lg>>
      [] e = "R" -> <<Rd("r"), Rd("r"), Lg>>
      [] e = "L" -> <<Rd("u"), St("u", "more")>>
      [] e = "outer" -> <<Rd("trigger"), Lg, Ch>>
      [] e = "outerKidFirst" -> <<Ch, Rd("trigger"), Lg>>
      [] e \in AllKids -> <<Rd("trigger"), Lg>>

\* Values the program writes to a plain cell: flags are 0 or 1, z also takes
\* NaN and -0, m also takes -0.
InputVals(c) ==
    CASE c \in {"condition", "p", "q", "enabled", "g", "trigger", "t"} -> {0, 1}
      [] c = "z" -> Nums \cup Specials
      [] c = "m" -> Nums \cup {NegZero}
      [] OTHER -> Nums

\* Cells the program subscribes to with cell(fn), and the callbacks it uses:
\* "spy" records its argument, "unsubNext" also calls the unsubscribe of the
\* subscription made after its own, "boom" throws, "subMore" subscribes "spy"
\* to the cell while the program holds fewer than MaxSubs subscriptions.
SubCells(sc) ==
    CASE sc = "quick" -> {"count"}
      [] sc = "diamond" -> {"d"}
      [] sc = "subs" -> {"s"}
      [] sc = "same" -> {"z"}
      [] sc = "memo" -> {"on"}
      [] sc = "throws" -> {"t"}
      [] sc = "grow" -> {"w"}
      [] OTHER -> {}

SubFns(sc) ==
    CASE sc = "subs" -> {"spy", "unsubNext"}
      [] sc = "throws" -> {"boom"}
      [] sc = "grow" -> {"subMore"}
      [] OTHER -> {"spy"}

\* The programs that read their computeds from outside any effect.
Reading == {"quick"}

\* The programs that batch writes with action(fn).
Batching == {"quick", "diamond", "pair", "dispose", "throws"}

\* The programs whose action blocks may throw.
Throwing == {"throws"}

\* How many subscriptions the program makes.
SubLimit(sc) == IF sc = "subs" THEN MaxSubs ELSE 1

\* ------------------------------------------------------------------- state
VARIABLES
    scenario,          \* the client program being run
    value,             \* atom: value, per cell
    listeners,         \* atom: listeners (insertion-ordered Set), per cell
    cleanup,           \* Effect.cleanup per effect, <<>> is null
    effectRefCounts,   \* Map<Effect, number>, 0 is absent
    pendingEffects,    \* Set<Effect> in insertion order
    flushing,
    writeDepth,
    currentEffect,
    microtasks,        \* flushPending callbacks queued by Promise.resolve().then
    handles,           \* unsubscribe closures the program holds
    created,           \* user effects created so far
    disposed,          \* user effects whose disposer was called
    tracked,           \* per effect: cells its body read outside untracked in its last
                       \* run, until its cleanup runs
    everTracked,       \* per effect: cells its body read outside untracked in any run
    log,               \* what happened during the last call, in order
    hung,              \* the last call never returns
    lastOp             \* the last call the program made

vars == <<scenario, value, listeners, cleanup, effectRefCounts, pendingEffects,
          flushing, writeDepth, currentEffect, microtasks, handles, created,
          disposed, tracked, everTracked, log, hung, lastOp>>

Range(q) == {q[i] : i \in 1..Len(q)}

\* A listener closure: "track" is () => scheduleEffect(eff), "sub" is
\* () => input(value) of the subscription handle h.
TrackListener(i, e) == [id |-> i, kind |-> "track", eff |-> e, h |-> 0]
SubListener(i, k) == [id |-> i, kind |-> "sub", eff |-> None, h |-> k]

\* A step of a cleanup chain: remove one listener, or run a child's cleanup.
RmStep(c, i, e) == [t |-> "rm", cell |-> c, id |-> i, eff |-> e]
ChildStep(e) == [t |-> "child", cell |-> "-", id |-> 0, eff |-> e]

Event(k, e, hd, vs) == [t |-> k, eff |-> e, h |-> hd, vals |-> vs, stale |-> FALSE]
Logged(s, ev) == IF s.stuck THEN s ELSE [s EXCEPT !.log = Append(@, ev)]

\* The statements of a procedure in order: x is evaluated, then F of its value.
Then(x, F(_)) == CHOOSE r \in {F(y) : y \in {x}} : TRUE

HasListener(s, c, i) == \E j \in 1..Len(s.listeners[c]) : s.listeners[c][j].id = i
Without(q, i) == SelectSeq(q, LAMBDA l : l.id # i)

RECURSIVE flushPending(_), RunNow(_, _), scheduleEffect(_, _), notify(_, _),
          NotifyEach(_, _, _), atomWrite(_, _, _), run(_, _), Exec(_, _, _, _),
          RunCleanup(_, _), Callback(_, _, _), unsubscribe(_, _), effect(_, _)

\* ---------------------------------------------------------------- scheduler
\* Mutant: effects cleaned up during the cycle are run all the same.
RunNow_noSkip(s, q) ==
    IF q = <<>> \/ s.thrown THEN s
    ELSE Then(run(s, Head(q)), LAMBDA s1 : RunNow(s1, Tail(q)))

\* for (const eff of runNow): skip effects without live listeners, run the rest.
RunNow(s, q) ==
    IF q = <<>> \/ s.thrown THEN s
    ELSE LET eff == Head(q)
         IN Then(IF s.effectRefCounts[eff] = 0 THEN s ELSE run(s, eff),
                 LAMBDA s1 : RunNow(s1, Tail(q)))

\* Mutant: the pending set is not cleared when the snapshot is taken.
flushPending_noClear(s) ==
    IF s.thrown THEN s
    ELSE IF Len(s.pendingEffects) > 0
    THEN Then(RunNow(Logged(s, Event("flush", None, 0,
                                     <<Len(s.pendingEffects),
                                       Cardinality(Range(s.pendingEffects)),
                                       s.writeDepth>>)),
                     s.pendingEffects),
              LAMBDA s1 : flushPending(s1))
    ELSE Logged([s EXCEPT !.flushing = FALSE],
                Event("flushed", None, 0, <<Len(s.pendingEffects)>>))

\* An exception thrown by eff.run() leaves the loops.  The flush event records
\* the size of runNow, how many effects it holds and writeDepth, the flushed
\* event the size of the pending set when the loop is left.
flushPending(s) ==
    IF s.thrown THEN s
    ELSE IF Len(s.pendingEffects) > 0
    THEN Then(RunNow(Logged([s EXCEPT !.pendingEffects = <<>>],
                            Event("flush", None, 0,
                                  <<Len(s.pendingEffects),
                                    Cardinality(Range(s.pendingEffects)),
                                    s.writeDepth>>)),
                     s.pendingEffects),
              LAMBDA s1 : flushPending(s1))
    ELSE Logged([s EXCEPT !.flushing = FALSE],
                Event("flushed", None, 0, <<Len(s.pendingEffects)>>))

\* flushPending() called in a finally block: it runs whether or not an
\* exception is on its way out, and the exception goes on afterwards.
finallyFlush(s) ==
    IF s.stuck THEN s
    ELSE LET r == flushPending([s EXCEPT !.thrown = FALSE])
         IN [r EXCEPT !.thrown = @ \/ s.thrown]

\* Mutant: the pending set is a list, an effect can be in it twice.
scheduleEffect_dup(s, e) ==
    LET s1 == [Logged(s, Event("sched", e, 0, <<s.writeDepth>>))
                  EXCEPT !.pendingEffects = Append(@, e)]
    IN IF s1.writeDepth > 0 THEN s1
       ELSE IF ~s1.flushing
            THEN [s1 EXCEPT !.flushing = TRUE, !.microtasks = @ + 1]
            ELSE s1

\* Mutant: the flush is deferred whatever the write depth.
scheduleEffect_defer(s, e) ==
    IF e \in Range(s.pendingEffects) THEN s
    ELSE LET s1 == [Logged(s, Event("sched", e, 0, <<s.writeDepth>>))
                       EXCEPT !.pendingEffects = Append(@, e)]
         IN IF ~s1.flushing
            THEN [s1 EXCEPT !.flushing = TRUE, !.microtasks = @ + 1]
            ELSE s1

scheduleEffect(s, e) ==
    IF e \in Range(s.pendingEffects) THEN s
    ELSE LET s1 == [Logged(s, Event("sched", e, 0, <<s.writeDepth>>))
                       EXCEPT !.pendingEffects = Append(@, e)]
         IN IF s1.writeDepth > 0 THEN s1
            ELSE IF ~s1.flushing
                 THEN [s1 EXCEPT !.flushing = TRUE, !.microtasks = @ + 1]
                 ELSE s1

\* --------------------------------------------------------------------- atom
\* cleanup(): the chain of closures, most recent registration first.
RunCleanup(s, chain) ==
    IF chain = <<>> THEN s
    ELSE LET st == Head(chain)
         IN Then(IF st.t = "rm"
                 THEN [s EXCEPT !.listeners[st.cell] = Without(@, st.id),
                                !.effectRefCounts[st.eff] =
                                    IF @ <= 1 THEN 0 ELSE @ - 1,
                                !.tracked[st.eff] = @ \ {st.cell}]
                 ELSE RunCleanup(s, s.cleanup[st.eff]),
                 LAMBDA s1 : RunCleanup(s1, Tail(chain)))

\* Mutant: the count goes up once per cell, not once per listener.
atomRead_perCell(s, c) ==
    IF s.currentEffect # None
    THEN LET effectToRun == s.currentEffect
         IN [s EXCEPT !.listeners[c] = Append(@, TrackListener(s.nextId, effectToRun)),
                      !.effectRefCounts[effectToRun] =
                          IF \E l \in Range(s.listeners[c]) : l.eff = effectToRun
                          THEN @ ELSE @ + 1,
                      !.cleanup[effectToRun] = <<RmStep(c, s.nextId, effectToRun)>> \o @,
                      !.nextId = @ + 1]
    ELSE s

\* atomFn(): read and track.
atomRead(s, c) ==
    IF s.currentEffect # None
    THEN LET effectToRun == s.currentEffect
         IN [s EXCEPT !.listeners[c] = Append(@, TrackListener(s.nextId, effectToRun)),
                      !.effectRefCounts[effectToRun] = @ + 1,
                      !.cleanup[effectToRun] = <<RmStep(c, s.nextId, effectToRun)>> \o @,
                      !.nextId = @ + 1]
    ELSE s

\* atomFn(fn): subscribe; the returned closure is kept as a handle.
atomSubscribe(s, c, g) ==
    [s EXCEPT !.listeners[c] = Append(@, SubListener(s.nextId, Len(s.handles) + 1)),
              !.handles = Append(@, [cell |-> c, id |-> s.nextId, fn |-> g, dead |-> FALSE]),
              !.nextId = @ + 1]

\* The closure returned by atomFn(fn).
unsubscribe(s, k) ==
    LET hd == s.handles[k]
    IN [Logged(s, Event("unsub", None, k, <<>>))
           EXCEPT !.listeners[hd.cell] = Without(@, hd.id),
                  !.handles[k].dead = TRUE]

\* The program's subscriber callbacks.
Callback(s, c, k) ==
    LET g == s.handles[k].fn
        s1 == Logged(s, [Event("call", None, k, <<s.value[c]>>)
                            EXCEPT !.stale = s.handles[k].dead])
    IN CASE g = "spy" -> s1
         [] g = "unsubNext" -> IF k + 1 <= Len(s1.handles) THEN unsubscribe(s1, k + 1) ELSE s1
         [] g = "boom" -> [Logged(s1, Event("throw", None, k, <<>>)) EXCEPT !.thrown = TRUE]
         [] g = "subMore" -> IF Len(s1.handles) < MaxSubs
                             THEN atomSubscribe(s1, c, "spy") ELSE s1

\* Mutant: the snapshot is iterated without the live-set check.
NotifyEach_noCheck(s, c, snapshot) ==
    IF snapshot = <<>> \/ s.thrown THEN s
    ELSE LET listener == Head(snapshot)
         IN Then(IF listener.kind = "track" THEN scheduleEffect(s, listener.eff)
                 ELSE Callback(s, c, listener.h),
                 LAMBDA s1 : NotifyEach(s1, c, Tail(snapshot)))

NotifyEach(s, c, snapshot) ==
    IF snapshot = <<>> \/ s.thrown THEN s
    ELSE LET listener == Head(snapshot)
         IN Then(IF ~HasListener(s, c, listener.id) THEN s
                 ELSE IF listener.kind = "track" THEN scheduleEffect(s, listener.eff)
                 ELSE Callback(s, c, listener.h),
                 LAMBDA s1 : NotifyEach(s1, c, Tail(snapshot)))

\* Mutant: the pass walks the live set, so it reaches listeners added meanwhile.
RECURSIVE NotifyLive(_, _, _)
NotifyLive(s, c, i) ==
    IF i > Len(s.listeners[c]) \/ s.thrown THEN s
    ELSE LET listener == s.listeners[c][i]
         IN Then(IF listener.kind = "track" THEN scheduleEffect(s, listener.eff)
                 ELSE Callback(s, c, listener.h),
                 LAMBDA s1 : NotifyLive(s1, c, i + 1))

notify_live(s, c) == NotifyLive(s, c, 1)

notify(s, c) == NotifyEach(s, c, s.listeners[c])

\* The finally block of a write or of an action, entered at depth d with
\* writeDepth already decreased.
Unwound(s2, d) ==
    Then(IF s2.writeDepth = 0 THEN finallyFlush(s2) ELSE s2,
         LAMBDA s3 : Logged(s3, Event("exit", None, 0, <<d, s3.writeDepth>>)))

\* value = newValue; the effects registered on c have a changed dependency.
Assigned(s, c, newValue) ==
    [s EXCEPT !.value[c] = newValue,
              !.dirty = @ \cup {l.eff : l \in {x \in Range(s.listeners[c]) : x.kind = "track"}}]

\* Mutant: the write notifies without comparing the values.
atomWrite_always(s, c, newValue) ==
    Then(Assigned([s EXCEPT !.writeDepth = @ + 1], c, newValue), LAMBDA s0 :
    Then(notify(s0, c), LAMBDA s1 :
    Unwound([s1 EXCEPT !.writeDepth = @ - 1], s.writeDepth)))

\* Mutant: the write opens no transaction around notify.
atomWrite_noTransaction(s, c, newValue) ==
    IF ~ObjectIs(s.value[c], newValue)
    THEN Then(Assigned(s, c, newValue), LAMBDA s0 :
         Then(notify(s0, c), LAMBDA s1 : Unwound(s1, s.writeDepth)))
    ELSE s

\* Mutant: the write does not flush when the transaction unwinds.
atomWrite_noFlush(s, c, newValue) ==
    IF ~ObjectIs(s.value[c], newValue)
    THEN Then(Assigned([s EXCEPT !.writeDepth = @ + 1], c, newValue), LAMBDA s0 :
         [notify(s0, c) EXCEPT !.writeDepth = @ - 1])
    ELSE s

\* Mutant: the finally block flushes at every depth.
atomWrite_eager(s, c, newValue) ==
    IF ~ObjectIs(s.value[c], newValue)
    THEN Then(Assigned([s EXCEPT !.writeDepth = @ + 1], c, newValue), LAMBDA s0 :
         Then(notify(s0, c), LAMBDA s1 :
         Then(finallyFlush([s1 EXCEPT !.writeDepth = @ - 1]), LAMBDA s3 :
         Logged(s3, Event("exit", None, 0, <<s.writeDepth, s3.writeDepth>>)))))
    ELSE s

\* atomFn(newValue): write.  s1 is the try block, Unwound the finally block.
atomWrite(s, c, newValue) ==
    IF ~ObjectIs(s.value[c], newValue)
    THEN Then(Assigned([s EXCEPT !.writeDepth = @ + 1], c, newValue), LAMBDA s0 :
         Then(notify(s0, c), LAMBDA s1 :
         Unwound([s1 EXCEPT !.writeDepth = @ - 1], s.writeDepth)))
    ELSE s

\* Mutant: the wrapper evaluates the derivation on every read.
computedRead_recompute(s, c) ==
    Then(run(s, EffectOf(c)), LAMBDA s1 : atomRead(s1, c))

\* readonlyAtom(): the wrapper of a computed reads the internal atom.
computedRead(s, c) == atomRead(s, c)

\* atom: current: { get: () => value }.
atomCurrent(s, c) == s

\* computed: current: { get: () => internal() }.
computedCurrent(s, c) == atomRead(s, c)

\* c.current in a body.
Current(s, c) ==
    IF c \in AllComputeds THEN computedCurrent(s, c) ELSE atomCurrent(s, c)

\* c() in a body: c is a plain atom or the wrapper of a computed.
Read(s, c) == IF c \in AllComputeds THEN computedRead(s, c) ELSE atomRead(s, c)

\* ---------------------------------------------------------------- untracked
\* Mutant: currentEffect is left in place.
untracked_tracking(s, c) == atomRead(s, c)

\* untracked(() => c())
untracked(s, c) ==
    LET prev == s.currentEffect
        s1 == atomRead([s EXCEPT !.currentEffect = None], c)
    IN [s1 EXCEPT !.currentEffect = prev]

\* ------------------------------------------------------------------- effect
\* The body of e calls the read function of c outside untracked.
Noted(s, e, c) == [s EXCEPT !.tracked[e] = @ \cup {c}, !.everTracked[e] = @ \cup {c}]

\* new Effect(...) for a nested effect: an object no one has seen in this call.
NewEffect(s) ==
    KidNames[CHOOSE i \in 1..Len(KidNames) :
                /\ KidNames[i] \notin s.usedKids
                /\ \A j \in 1..(i - 1) : KidNames[j] \in s.usedKids]

\* The statements of fn(), with the values read so far.
Exec(s, e, body, vals) ==
    IF body = <<>> \/ s.thrown THEN s
    ELSE LET st == Head(body)
             rest == Tail(body)
         IN CASE st.op = "read" ->
                   Then(Noted(Read(s, st.cell), e, st.cell), LAMBDA s1 :
                        Exec(s1, e, rest, Append(vals, s.value[st.cell])))
              [] st.op = "readU" ->
                   Then(untracked(s, st.cell), LAMBDA s1 :
                        Exec(s1, e, rest, Append(vals, s.value[st.cell])))
              [] st.op = "current" ->
                   Then(Current(s, st.cell), LAMBDA s1 :
                        Exec(IF st.cell \in AllComputeds THEN Noted(s1, e, st.cell) ELSE s1,
                             e, rest, Append(vals, s.value[st.cell])))
              [] st.op = "branch" ->
                   Then(Noted(Read(s, st.cell), e, st.cell), LAMBDA s1 :
                        LET c == IF Truthy(s1.value[st.cell]) THEN st.t ELSE st.f
                        IN Then(Noted(Read(s1, c), e, c), LAMBDA s2 :
                                Exec(s2, e, rest, Append(vals, s1.value[c]))))
              [] st.op = "set" ->
                   Then(atomWrite(s, st.cell, Apply(st.fn, vals)), LAMBDA s1 :
                        Exec(s1, e, rest, vals))
              [] st.op = "log" ->
                   Then(Logged(s, Event("obs", e, 0, vals)), LAMBDA s1 :
                        Exec(s1, e, rest, vals))
              [] st.op = "throwIf" ->
                   IF Truthy(vals[Len(vals)])
                   THEN [Logged(s, Event("throw", e, 0, <<>>)) EXCEPT !.thrown = TRUE]
                   ELSE Exec(s, e, rest, vals)
              [] st.op = "child" ->
                   LET k == NewEffect(s)
                   IN Then(effect([s EXCEPT !.usedKids = @ \cup {k}], k), LAMBDA s1 :
                           Exec(s1, e, rest, vals))

\* How many effect bodies the call has run so far.
RunsSoFar(s) == Cardinality({i \in 1..Len(s.log) : s.log[i].t = "run"})

\* How many runs of e are on the call stack.
Running(s, e) == Cardinality({i \in 1..Len(s.running) : s.running[i] = e})

\* The call has run MaxRuns bodies, or is running e MaxNest times inside
\* itself, and is about to run one more: it is taken not to return.  Nothing
\* that follows in the call is modelled.
Stuck(s) == [s EXCEPT !.stuck = TRUE, !.thrown = TRUE]

\* Mutant: the previous dependencies are dropped without being cleaned up.
run_keepDeps(s, e) ==
    IF RunsSoFar(s) >= MaxRuns \/ Running(s, e) >= MaxNest THEN Stuck(s)
    ELSE
    Then([s EXCEPT !.cleanup[e] = <<>>], LAMBDA s1 :
    Then([Logged(s1, Event("run", e, IF e \in s.dirty THEN 1 ELSE 0, <<>>))
             EXCEPT !.currentEffect = e, !.tracked[e] = {}, !.dirty = @ \ {e},
                    !.running = Append(@, e)], LAMBDA s2 :
    Then(Exec(s2, e, Body(e), <<>>), LAMBDA s3 :
    LET prev == s1.currentEffect
    IN IF s3.thrown THEN [s3 EXCEPT !.running = s.running]
       ELSE [s3 EXCEPT !.currentEffect = prev, !.running = s.running])))

\* effectObj.run: when fn() throws, the statement after it is not reached.
\* The run event records whether a cell e was registered on has changed since
\* the previous run of e.
run(s, e) ==
    IF RunsSoFar(s) >= MaxRuns \/ Running(s, e) >= MaxNest THEN Stuck(s)
    ELSE
    Then([RunCleanup(s, s.cleanup[e]) EXCEPT !.cleanup[e] = <<>>], LAMBDA s1 :
    Then([Logged(s1, Event("run", e, IF e \in s.dirty THEN 1 ELSE 0, <<>>))
             EXCEPT !.currentEffect = e, !.tracked[e] = {}, !.dirty = @ \ {e},
                    !.running = Append(@, e)], LAMBDA s2 :
    Then(Exec(s2, e, Body(e), <<>>), LAMBDA s3 :
    LET prev == s1.currentEffect
    IN IF s3.thrown THEN [s3 EXCEPT !.running = s.running]
       ELSE [s3 EXCEPT !.currentEffect = prev, !.running = s.running])))

effect(s, e) ==
    LET parentEffect == s.currentEffect
        s1 == IF parentEffect # None
              THEN [s EXCEPT !.cleanup[parentEffect] = <<ChildStep(e)>> \o @]
              ELSE s
    IN run(s1, e)

\* The closure effect(fn) returns.  The event records whether e was pending.
dispose(s, e) ==
    LET s1 == Logged(s, Event("dispose", e, 0,
                  <<IF e \in Range(s.pendingEffects) THEN 1 ELSE 0>>))
    IN [RunCleanup(s1, s1.cleanup[e]) EXCEPT !.cleanup[e] = <<>>]

\* ----------------------------------------------------------------- computed
\* internal = atom(undefined) is the cell c; its effect writes fn()'s result.
computed(s, c) == effect(s, EffectOf(c))

\* ------------------------------------------------------------------- action
\* The block of an action call: a sequence of statements.  The get event
\* records what the read of a computed returned.
RECURSIVE Block(_, _)
Block(s, ws) ==
    IF ws = <<>> \/ s.thrown THEN s
    ELSE LET st == Head(ws)
         IN Then(CASE st.op = "write" -> atomWrite(s, st.cell, st.val)
                   [] st.op = "dispose" -> dispose(s, st.eff)
                   [] st.op = "throw" ->
                        [Logged(s, Event("throw", None, 0, <<>>)) EXCEPT !.thrown = TRUE]
                   [] st.op = "get" ->
                        Logged(computedRead(s, st.cell),
                               Event("get", EffectOf(st.cell), 0, <<s.value[st.cell]>>)),
                 LAMBDA s1 : Block(s1, Tail(ws)))

\* Mutant: the block runs without opening a write transaction.
action_unbatched(s, ws) ==
    Then(Block(s, ws), LAMBDA s1 :
    Unwound(Logged(s1, Event("blockEnd", None, 0, <<>>)), s.writeDepth))

\* Mutant: no finally, the depth is restored on normal return only.
action_noFinally(s, ws) ==
    Then(Block([s EXCEPT !.writeDepth = @ + 1], ws), LAMBDA s1 :
    Then([Logged(s1, Event("blockEnd", None, 0, <<>>)) EXCEPT !.writeDepth = @ - 1],
         LAMBDA s2 :
    Then(IF s1.thrown THEN s1 ELSE IF s2.writeDepth = 0 THEN flushPending(s2) ELSE s2,
         LAMBDA s3 :
    Logged(s3, Event("exit", None, 0, <<s.writeDepth, s3.writeDepth>>)))))

\* action(fn): s1 is the try block, Unwound the finally block.
action(s, ws) ==
    Then(Block([s EXCEPT !.writeDepth = @ + 1], ws), LAMBDA s1 :
    Unwound([Logged(s1, Event("blockEnd", None, 0, <<>>)) EXCEPT !.writeDepth = @ - 1],
            s.writeDepth))

\* ------------------------------------------------------- calls of the program
\* Listener closures are objects; the model names them by allocation order and
\* renames them 1..n, order kept, when a call of the program returns.
UsedIds(s) ==
    UNION {{l.id : l \in Range(s.listeners[c])} : c \in DOMAIN s.listeners}
    \cup UNION {{st.id : st \in {x \in Range(s.cleanup[e]) : x.t = "rm"}} : e \in DOMAIN s.cleanup}
    \cup {s.handles[k].id : k \in 1..Len(s.handles)}

Rank(ids, i) == Cardinality({j \in ids : j <= i})

\* Effect object k is held by a listener or by a parent's cleanup chain.
Referenced(ls, cl, k) ==
    \/ \E c \in DOMAIN ls : \E l \in Range(ls[c]) : l.eff = k
    \/ \E e \in DOMAIN cl : \E st \in Range(cl[e]) : st.t = "child" /\ st.eff = k

\* Nested Effect objects nothing refers to any more are garbage.
Collected(s) ==
    LET dead == {k \in AllKids \cap DOMAIN s.cleanup :
                    /\ ~Referenced(s.listeners, s.cleanup, k)
                    /\ k \notin Range(s.pendingEffects)}
    IN [s EXCEPT
          !.cleanup = [e \in DOMAIN s.cleanup |-> IF e \in dead THEN <<>> ELSE s.cleanup[e]],
          !.tracked = [e \in DOMAIN s.tracked |-> IF e \in dead THEN {} ELSE s.tracked[e]],
          !.everTracked = [e \in DOMAIN s.everTracked |->
                              IF e \in dead THEN {} ELSE s.everTracked[e]]]

Renamed(s) ==
    LET ids == UsedIds(s)
    IN [s EXCEPT
          !.listeners = [c \in DOMAIN s.listeners |->
              [j \in 1..Len(s.listeners[c]) |->
                  [s.listeners[c][j] EXCEPT !.id = Rank(ids, @)]]],
          !.cleanup = [e \in DOMAIN s.cleanup |->
              [j \in 1..Len(s.cleanup[e]) |->
                  IF s.cleanup[e][j].t = "rm"
                  THEN [s.cleanup[e][j] EXCEPT !.id = Rank(ids, @)]
                  ELSE s.cleanup[e][j]]],
          !.handles = [k \in 1..Len(s.handles) |->
              [s.handles[k] EXCEPT !.id = Rank(ids, @)]],
          !.nextId = Cardinality(ids) + 1]

\* The state the library is in when the program makes a call.
Now ==
    [value |-> value, listeners |-> listeners, cleanup |-> cleanup,
     effectRefCounts |-> effectRefCounts, pendingEffects |-> pendingEffects,
     flushing |-> flushing, writeDepth |-> writeDepth,
     currentEffect |-> currentEffect, microtasks |-> microtasks,
     handles |-> handles, tracked |-> tracked, everTracked |-> everTracked,
     log |-> <<>>, thrown |-> FALSE, stuck |-> FALSE, running |-> <<>>, dirty |-> {},
     usedKids |-> {k \in AllKids : Referenced(listeners, cleanup, k)},
     nextId |-> Cardinality(UsedIds([listeners |-> listeners, cleanup |-> cleanup,
                                     handles |-> handles])) + 1]

\* The state the call leaves; the program catches what the call throws.  A
\* call that does not return leaves the program inside it for ever: no state
\* of the library is observed again, the log holds what the call did.
Returns(s0) ==
    /\ ~hung
    /\ hung' = s0.stuck
    /\ \E s \in {IF s0.stuck THEN [Now EXCEPT !.log = s0.log]
                 ELSE Then(Collected(s0), LAMBDA s1 : Renamed(s1))} :
        /\ value' = s.value
        /\ listeners' = s.listeners
        /\ cleanup' = s.cleanup
        /\ effectRefCounts' = s.effectRefCounts
        /\ pendingEffects' = s.pendingEffects
        /\ flushing' = s.flushing
        /\ writeDepth' = s.writeDepth
        /\ currentEffect' = s.currentEffect
        /\ microtasks' = s.microtasks
        /\ handles' = s.handles
        /\ tracked' = s.tracked
        /\ everTracked' = s.everTracked
        /\ log' = s.log

Op(k, c, v, e, hd, cnt, ch, r) ==
    [kind |-> k, cell |-> c, val |-> v, eff |-> e, h |-> hd, n |-> cnt,
     changed |-> ch, ret |-> r]

\* Module load, then the program's atom(0) and computed(fn) calls.
Loaded(sc) ==
    [value |-> [c \in Cells(sc) |-> IF c \in Atoms(sc) THEN 0 ELSE Undefined],
     listeners |-> [c \in Cells(sc) |-> <<>>],
     cleanup |-> [e \in Effects(sc) |-> <<>>],
     effectRefCounts |-> [e \in Effects(sc) |-> 0],
     pendingEffects |-> <<>>, flushing |-> FALSE, writeDepth |-> 0,
     currentEffect |-> None, microtasks |-> 0, handles |-> <<>>,
     tracked |-> [e \in Effects(sc) |-> {}],
     everTracked |-> [e \in Effects(sc) |-> {}], log |-> <<>>, thrown |-> FALSE,
     stuck |-> FALSE, running |-> <<>>,
     dirty |-> {}, usedKids |-> {}, nextId |-> 1]

RECURSIVE Built(_, _)
Built(s, cs) ==
    IF cs = <<>> THEN s
    ELSE Then(computed(s, Head(cs)), LAMBDA s1 : Built(s1, Tail(cs)))

Init ==
    \E sc \in Scenarios :
        \E s \in {Then(Built(Loaded(sc), Computeds(sc)), LAMBDA s1 : Renamed(s1))} :
           /\ scenario = sc
           /\ value = s.value
           /\ listeners = s.listeners
           /\ cleanup = s.cleanup
           /\ effectRefCounts = s.effectRefCounts
           /\ pendingEffects = s.pendingEffects
           /\ flushing = s.flushing
           /\ writeDepth = s.writeDepth
           /\ currentEffect = s.currentEffect
           /\ microtasks = s.microtasks
           /\ handles = s.handles
           /\ tracked = s.tracked
           /\ everTracked = s.everTracked
           /\ created = {}
           /\ disposed = {}
           /\ log = <<>>
           /\ hung = FALSE
           /\ lastOp = Op("load", "-", 0, None, 0, 0, 0, 0)

\* cell(v) called by the program.
WriteCell(c, v) ==
    /\ c \in Atoms(scenario)
    /\ v \in InputVals(c)
    /\ \E s \in {Then(Now, LAMBDA s0 : atomWrite(s0, c, v))} :
          /\ Returns(s)
          /\ lastOp' = Op("write", c, v, None, 0, 1,
                          IF value[c] # v THEN 1 ELSE 0, s.value[c])
    /\ UNCHANGED <<scenario, created, disposed>>

\* How many writes of a block change the value of their cell.
RECURSIVE Changes(_, _)
Changes(vs, ws) ==
    IF ws = <<>> THEN 0
    ELSE LET st == Head(ws)
         IN IF st.op = "write"
            THEN (IF vs[st.cell] # st.val THEN 1 ELSE 0)
                 + Changes([vs EXCEPT ![st.cell] = st.val], Tail(ws))
            ELSE Changes(vs, Tail(ws))

\* The effects whose disposer a block calls.
Disposals(ws) == {ws[i].eff : i \in {j \in 1..Len(ws) : ws[j].op = "dispose"}}

\* action(() => { c1(v1); ...; cn(vn) }) called by the program.
ActionCall(ws) ==
    /\ scenario \in Batching
    /\ Disposals(ws) \subseteq created
    /\ \E s \in {Then(Now, LAMBDA s0 : action(s0, ws))} :
          /\ Returns(s)
          /\ lastOp' = Op("action", "-", 0, None, 0, Len(ws), Changes(value, ws), 0)
    /\ disposed' = disposed \cup Disposals(ws)
    /\ UNCHANGED <<scenario, created>>

\* effect(fn) called by the program.
EffectCreate(e) ==
    /\ e \in UserEffects(scenario) \ created
    /\ \E s \in {Then(Now, LAMBDA s0 : effect(s0, e))} : Returns(s)
    /\ created' = created \cup {e}
    /\ lastOp' = Op("effect", "-", 0, e, 0, 0, 0, 0)
    /\ UNCHANGED <<scenario, disposed>>

\* cell(fn) called by the program.
SubscribeCall(c, g) ==
    /\ c \in SubCells(scenario)
    /\ g \in SubFns(scenario)
    /\ Len(handles) < SubLimit(scenario)
    /\ \E s \in {Then(Now, LAMBDA s0 : atomSubscribe(s0, c, g))} : Returns(s)
    /\ lastOp' = Op("subscribe", c, 0, None, Len(handles) + 1, 0, 0, 0)
    /\ UNCHANGED <<scenario, created, disposed>>

\* c() called by the program, c a computed.
ReadCall(c) ==
    /\ scenario \in Reading
    /\ c \in ComputedCells(scenario)
    /\ \E s \in {Then(Now, LAMBDA s0 : computedRead(s0, c))} :
          /\ Returns(s)
          /\ lastOp' = Op("read", c, 0, None, 0, 0, 0, s.value[c])
    /\ UNCHANGED <<scenario, created, disposed>>

\* A closure returned by effect(fn), called by the program.
DisposeCall(e) ==
    /\ e \in created \cap Disposable(scenario)
    /\ \E s \in {Then(Now, LAMBDA s0 : dispose(s0, e))} : Returns(s)
    /\ disposed' = disposed \cup {e}
    /\ lastOp' = Op("dispose", "-", 0, e, 0, 0, 0, 0)
    /\ UNCHANGED <<scenario, created>>

\* A closure returned by cell(fn), called by the program.
UnsubscribeCall(k) ==
    /\ k \in 1..Len(handles)
    /\ \E s \in {Then(Now, LAMBDA s0 : unsubscribe(s0, k))} : Returns(s)
    /\ lastOp' = Op("unsubscribe", handles[k].cell, 0, None, k, 0, 0, 0)
    /\ UNCHANGED <<scenario, created, disposed>>

AllCells == UNION {Cells(sc) : sc \in Scenarios}
AllVals == Nums \cup Specials
AllEffects == UNION {UserEffects(sc) : sc \in Scenarios}
Writes(sc) ==
    {Wr(w[1], w[2]) : w \in {x \in Atoms(sc) \X AllVals : x[2] \in InputVals(x[1])}}
BlockStmts(sc) ==
    Writes(sc) \cup {Dp(e) : e \in Disposable(sc)}
    \cup (IF sc \in Reading THEN {Gt(c) : c \in ComputedCells(sc)} ELSE {})
    \cup (IF sc \in Throwing THEN {Tw} ELSE {})
Blocks(sc) == UNION {[1..n -> BlockStmts(sc)] : n \in 0..MaxWrites}

Next ==
    \/ \E c \in AllCells, v \in AllVals : WriteCell(c, v)
    \/ \E ws \in Blocks(scenario) : ActionCall(ws)
    \/ \E e \in UserEffects(scenario) : EffectCreate(e)
    \/ \E c \in AllCells, g \in SubFns(scenario) : SubscribeCall(c, g)
    \/ \E k \in 1..MaxSubs : UnsubscribeCall(k)
    \/ \E e \in AllEffects : DisposeCall(e)
    \/ \E c \in AllComputeds : ReadCall(c)

Spec == Init /\ [][Next]_vars

\* ------------------------------------------------------------------- claims
\* Positions in the log of the events of one kind about effect e.
At(k, e) == {i \in 1..Len(log) : log[i].t = k /\ log[i].eff = e}
\* How many times the body of e ran during the last call.
Runs(e) == Cardinality(At("run", e))
\* Positions in the log of the calls of subscription k's callback.
CallsAt(k) == {i \in 1..Len(log) : log[i].t = "call" /\ log[i].h = k}

\* The listener closures of effect e, on any cell.
ListenersOf(e) ==
    {<<c, j>> \in (DOMAIN listeners) \X (1..8) :
        j <= Len(listeners[c]) /\ listeners[c][j].eff = e}

\* C1: with count, double = computed(count * 2) and an effect E reading both,
\* creating E runs its body once, and every write that changes count runs it
\* exactly once, observing count = v and double = 2 * v.
C1_QuickStartRunsOnce ==
    scenario = "quick" =>
        /\ lastOp.kind = "effect" =>
              /\ Runs("E") = 1
              /\ \A i \in At("obs", "E") :
                    log[i].vals = <<value["count"], Mul(value["count"], 2)>>
        /\ (lastOp.kind = "write" /\ lastOp.changed = 1 /\ "E" \in created) =>
              /\ Runs("E") = 1
              /\ \A i \in At("obs", "E") :
                    log[i].vals = <<lastOp.val, Mul(lastOp.val, 2)>>

C3_DiamondGlitchFree ==
    scenario = "diamond" =>
        LET five == Add(Mul(value["a"], 2), Mul(value["a"], 3))
        IN /\ value["d"] = five
           /\ \A i \in At("obs", "spyD") : log[i].vals = <<five>>
           /\ \A k \in 1..Len(handles) : \A i \in CallsAt(k) : log[i].vals = <<five>>

\* C4: for every action call and every dependency graph, each effect runs at
\* most once for that call.
C4_ActionRunsEachOnce ==
    lastOp.kind = "action" => \A e \in Effects(scenario) : Runs(e) <= 1

\* C5: with two cells and an effect F reading both, the writes of one action
\* block do not run F while the block executes; afterwards F runs at most
\* once, exactly once if a write changed a value, and sees the final values.
C5_BatchedPair ==
    (scenario = "pair" /\ lastOp.kind = "action" /\ "F" \in created) =>
        /\ \A i \in At("run", "F") : \E j \in 1..(i - 1) : log[j].t = "blockEnd"
        /\ Runs("F") <= 1
        /\ lastOp.changed > 0 => Runs("F") = 1
        /\ \A i \in At("obs", "F") : log[i].vals = <<value["x"], value["y"]>>

C5_Witness ==
    /\ scenario = "pair" /\ lastOp.kind = "action" /\ "F" \in created
    /\ lastOp.n = MaxWrites /\ lastOp.changed = MaxWrites
    /\ value["x"] # 0 /\ value["y"] # 0
    /\ Runs("F") = 1
    /\ \E i \in At("obs", "F") : log[i].vals = <<value["x"], value["y"]>>

\* The value a computed must hold: its derivation applied to what it reads.
Derived(c) == Apply(Fn(c), [i \in 1..Len(Reads(c)) |-> value[Reads(c)[i]]])

\* C6: when a write or an action call of the program returns, the pending set
\* is empty and every computed holds its derivation applied to the current
\* values of the cells it reads.
C6_SynchronousConsistency ==
    lastOp.kind \in {"write", "action"} =>
        /\ pendingEffects = <<>>
        /\ \A c \in ComputedCells(scenario) : value[c] = Derived(c)

C6_Witness ==
    /\ scenario = "diamond" /\ lastOp.kind = "action" /\ lastOp.changed > 0
    /\ value["a"] = MaxVal
    /\ value["d"] = 5 * MaxVal
    /\ Runs("fxD") > 0
    /\ pendingEffects = <<>>

\* C7: writing a cell the value it holds is a no-op: nothing is called or
\* scheduled, the library's state is unchanged and the value is returned.
C7_SameValueNoOp ==
    [][(lastOp'.kind = "write" /\ lastOp'.val = value[lastOp'.cell]) =>
          /\ UNCHANGED <<value, listeners, cleanup, effectRefCounts, pendingEffects,
                         flushing, writeDepth, currentEffect, microtasks, handles>>
          /\ log' = <<>>
          /\ lastOp'.ret = value[lastOp'.cell]]_vars

C7_Witness ==
    /\ scenario = "same" /\ lastOp.kind = "write" /\ lastOp.changed = 0
    /\ lastOp.val = NaN /\ value["z"] = NaN
    /\ "Z" \in created /\ Len(handles) = 1 /\ ~handles[1].dead
    /\ log = <<>>

\* The cells on which effect e has a live tracking listener.
Deps(e) ==
    {c \in Cells(scenario) :
        \E l \in Range(listeners[c]) : l.kind = "track" /\ l.eff = e}

\* C8: after every run of an effect its tracking listeners are on exactly the
\* cells its body read, outside untracked, during that run; so a write to a
\* cell it read only in an earlier run does not run it again.
C8_DynamicDependencies ==
    [][/\ \A e \in Effects(scenario) : Deps(e)' = tracked'[e]
       /\ \A e \in created :
             (lastOp'.kind = "write"
                 /\ lastOp'.cell \in everTracked[e] \ tracked[e]) =>
                 At("run", e)' = {}]_vars

C8_Witness ==
    /\ scenario = "cond" /\ "G" \in created
    /\ lastOp.kind = "write" /\ lastOp.cell = "p" /\ lastOp.changed = 1
    /\ "p" \in everTracked["G"]
    /\ tracked["G"] = {"condition", "q"}
    /\ Deps("G") = {"condition", "q"}
    /\ Runs("G") = 0

\* C9: a read inside untracked registers no listener and leaves the reference
\* count alone: H, which reads enabled under untracked and n directly, is not
\* run again by a write to enabled and is run again by a write to n.
C9_UntrackedRead ==
    [][(scenario = "untracked" /\ "H" \in created') =>
          /\ \A l \in Range(listeners'["enabled"]) : l.eff # "H"
          /\ effectRefCounts'["H"] = 1
          /\ Deps("H")' = {"n"}
          /\ (lastOp'.kind = "write" /\ "H" \in created) =>
                Runs("H")' = IF lastOp'.cell = "n" /\ lastOp'.changed = 1
                             THEN 1 ELSE 0]_vars

C9_Witness ==
    /\ scenario = "untracked" /\ "H" \in created
    /\ lastOp.kind = "write" /\ lastOp.cell = "enabled" /\ lastOp.changed = 1
    /\ value["enabled"] = 1
    /\ Runs("H") = 0
    /\ effectRefCounts["H"] = 1

\* Subscription k had its unsubscribe called during the last call.
Unsubscribed(k) == \E i \in 1..Len(log) : log[i].t = "unsub" /\ log[i].h = k

\* C10: once the unsubscribe of a subscription has been called, its callback
\* is not invoked again, also when it is called during a notification pass
\* before the listener's turn; the other subscriptions of the cell are still
\* called, and calling unsubscribe again changes nothing.
C10_Unsubscribe ==
    [][/\ \A i \in 1..Len(log') : ~log'[i].stale
       /\ (scenario = "subs" /\ lastOp'.kind = "write" /\ lastOp'.changed = 1) =>
             \A k \in 1..Len(handles) :
                 IF handles[k].dead THEN CallsAt(k)' = {}
                 ELSE \/ Cardinality(CallsAt(k)') = 1
                      \/ CallsAt(k)' = {} /\ Unsubscribed(k)'
       /\ lastOp'.kind = "unsubscribe" =>
             /\ \A c \in Cells(scenario) :
                   listeners'[c] = SelectSeq(listeners[c],
                       LAMBDA l : ~(l.kind = "sub" /\ l.h = lastOp'.h))
             /\ \A k \in 1..Len(handles) :
                   handles'[k].dead = (handles[k].dead \/ k = lastOp'.h)
             /\ handles[lastOp'.h].dead => listeners' = listeners]_vars

C10_Witness ==
    /\ scenario = "subs" /\ lastOp.kind = "write" /\ lastOp.changed = 1
    /\ Len(handles) = 2
    /\ handles[1].fn = "unsubNext" /\ handles[2].fn = "unsubNext"
    /\ Cardinality(CallsAt(1)) = 1 /\ CallsAt(2) = {}
    /\ Unsubscribed(2) /\ handles[2].dead /\ ~handles[1].dead
    /\ listeners["s"] = <<SubListener(1, 1)>>

\* C11: once the disposer of an effect was called, the effect has no listener
\* on any cell and reference count 0, and its body does not run: not later in
\* the call that disposed it (also when it was pending then) and in no later
\* call.
C11_Disposed ==
    [][\A e \in disposed' :
          /\ ListenersOf(e)' = {}
          /\ effectRefCounts'[e] = 0
          /\ e \in disposed => Runs(e)' = 0
          /\ \A i \in At("run", e)', j \in At("dispose", e)' : i < j]_vars

\* The effect was pending when an action block disposed it, and the action
\* has returned.
C11_Witness ==
    /\ lastOp.kind = "action"
    /\ \E e \in disposed : \E j \in At("dispose", e) : log[j].vals = <<1>>

\* The Effect objects effect p created in its last run.
Children(p) == {st.eff : st \in {x \in Range(cleanup[p]) : x.t = "child"}}
\* The effects whose bodies ran during the last call, in order.
RunOrder ==
    LET rs == SelectSeq(log, LAMBDA ev : ev.t = "run")
    IN [i \in 1..Len(rs) |-> rs[i].eff]

\* C12: when a parent effect re-runs or is disposed, the children of its last
\* run lose every listener; and a write that changes a cell read by the parent
\* and by its child runs the parent once and then one fresh child, nothing else.
C12_NestedEffects ==
    [][\A p \in created :
          /\ (Runs(p)' > 0 \/ (lastOp'.kind = "dispose" /\ lastOp'.eff = p)) =>
                \A k \in Children(p) : ListenersOf(k)' = {}
          /\ (/\ lastOp'.kind = "write" /\ lastOp'.changed = 1
              /\ lastOp'.cell \in Deps(p)
              /\ \E k \in Children(p) : lastOp'.cell \in Deps(k)) =>
                /\ Len(RunOrder') = 2
                /\ RunOrder'[1] = p
                /\ RunOrder'[2] \in Children(p)' \ Children(p)]_vars

\* How many times the derivation of c ran while the program's computeds
\* were created.
CreationRuns(sc, c) ==
    LET made == Built(Loaded(sc), Computeds(sc)).log
    IN Cardinality({i \in 1..Len(made) :
                       made[i].t = "run" /\ made[i].eff = EffectOf(c)})

C14_SameResultSilent ==
    [][\A c \in ComputedCells(scenario) :
          (/\ lastOp'.kind = "write"
           /\ Runs(EffectOf(c))' = 1
           /\ value'[c] = value[c]) =>
              /\ \A e \in Effects(scenario) :
                    Deps(e) = {c} => Runs(e)' = 0 /\ At("sched", e)' = {}
              /\ \A k \in 1..Len(handles) :
                    handles[k].cell = c => CallsAt(k)' = {}]_vars

\* m changed, on was derived again with the same result, and K, which reads
\* only on, and the subscriber of on were left alone.
C14_Witness ==
    /\ scenario = "memo" /\ "K" \in created /\ Deps("K") = {"on"}
    /\ Len(handles) = 1 /\ ~handles[1].dead
    /\ lastOp.kind = "write" /\ lastOp.changed = 1
    /\ Runs("fxOn") = 1 /\ Runs("K") = 0 /\ CallsAt(1) = {}

\* C15: an effect that reads a computed and a plain cell only through
\* .current has no listener on any cell and no reference count, and no write
\* runs it again.
C15_CurrentUntracked ==
    (scenario = "current" /\ "P" \in created) =>
        /\ ListenersOf("P") = {}
        /\ effectRefCounts["P"] = 0
        /\ lastOp.kind = "write" => Runs("P") = 0

\* Positions in the log of the exceptions thrown during the last call.
Throws == {i \in 1..Len(log) : log[i].t = "throw"}

\* C16: currentEffect is restored on every exit path of an effect run: when no
\* effect is running it is null, also after a body has thrown.
C16_TrackerRestored == currentEffect = None

\* C17: every write and every action call leaves the write depth as it found
\* it, on normal return and when a subscriber, an effect body or the action
\* block throws; the depth is 0 whenever no write or action is in progress.
C17_WriteDepthRestored ==
    /\ writeDepth = 0
    /\ \A i \in 1..Len(log) :
          log[i].t = "exit" => log[i].vals[1] = log[i].vals[2] /\ log[i].vals[1] >= 0

\* A subscriber threw during a write made inside an action block: the write
\* and the action were both left by the exception.
C17_Witness ==
    /\ lastOp.kind = "action" /\ lastOp.changed >= 1
    /\ \E i \in Throws : log[i].h > 0
    /\ \E i \in 1..Len(log) : log[i].t = "exit" /\ log[i].vals = <<1, 1>>
    /\ writeDepth = 0

\* C18: an effect that was scheduled during a call and still has listeners
\* when the call returns has run after it was scheduled, or is still pending:
\* the exception of another body does not lose its re-run.
C18_NoLostRerun ==
    [][\A e \in Effects(scenario) :
          \A i \in At("sched", e)' :
              effectRefCounts'[e] > 0 =>
                  \/ \E j \in At("run", e)' : j > i
                  \/ e \in Range(pendingEffects')]_vars

\* C19 as claimed: a write made by the program with no transaction open
\* leaves the effects that read the cell scheduled for one deferred flush and
\* does not run them itself, so that the writes of one turn share that flush.
C19_DeferredCoalescing ==
    [][(lastOp'.kind = "write" /\ lastOp'.changed = 1) =>
          \A e \in Effects(scenario) :
              lastOp'.cell \in Deps(e) =>
                  /\ Runs(e)' = 0
                  /\ e \in Range(pendingEffects')
                  /\ flushing' /\ microtasks' = 1]_vars

\* C19 as amended: effects are scheduled only while a write transaction is
\* open, so no deferred flush is ever opened; when a call of the program
\* returns, the flush has run and nothing is pending or queued for the next
\* tick.
C19_SynchronousFlush ==
    /\ microtasks = 0 /\ ~flushing /\ pendingEffects = <<>>
    /\ \A i \in 1..Len(log) : log[i].t = "sched" => log[i].vals[1] > 0

\* The second of two writes the program made in one turn, to the two cells F
\* reads: it ran F itself.
C19_Witness ==
    /\ scenario = "pair" /\ "F" \in created
    /\ lastOp.kind = "write" /\ lastOp.changed = 1
    /\ value["x"] # 0 /\ value["y"] # 0
    /\ Runs("F") = 1 /\ microtasks = 0

\* Positions in the log where an effect was added to the pending set.
Scheds == {i \in 1..Len(log) : log[i].t = "sched"}
\* The first run of the effect scheduled at position i after that position,
\* 0 when there is none.
RunOf(i) ==
    LET after == {j \in At("run", log[i].eff) : j > i}
    IN IF after = {} THEN 0 ELSE CHOOSE j \in after : \A m \in after : j <= m

\* C20: effects run in the order they were added to the pending set: of two
\* effects scheduled during a call, the one scheduled first runs first, also
\* when the second was scheduled while the flush was running; and the flush
\* leaves nothing pending.
C20_FirstScheduledOrder ==
    /\ pendingEffects = <<>>
    /\ \A i, j \in Scheds :
          (i < j /\ log[i].eff # log[j].eff /\ RunOf(i) # 0 /\ RunOf(j) # 0) =>
              RunOf(i) < RunOf(j)

\* The events of the notification pass of a write the program makes: what the
\* log holds before the flush runs an effect and before the write exits.
RECURSIVE PassOf(_)
PassOf(lg) ==
    IF lg = <<>> \/ Head(lg).t \in {"flush", "flushed", "run", "exit"} THEN <<>>
    ELSE <<Head(lg)>> \o PassOf(Tail(lg))

\* A listener closure without its name, and the closure an event is about.
Closure(l) == [kind |-> l.kind, eff |-> l.eff, h |-> l.h]
ClosureOf(ev) ==
    [kind |-> IF ev.t = "call" THEN "sub" ELSE "track", eff |-> ev.eff, h |-> ev.h]

\* A sequence without the later occurrences of its elements.
RECURSIVE Firsts(_)
Firsts(q) ==
    IF q = <<>> THEN <<>>
    ELSE LET f == Firsts(SubSeq(q, 1, Len(q) - 1))
         IN IF q[Len(q)] \in Range(f) THEN f ELSE Append(f, q[Len(q)])

IsPrefix(p, q) == Len(p) <= Len(q) /\ p = SubSeq(q, 1, Len(p))

\* The listeners a pass of events pass over the registrations ls must invoke,
\* in order: those of ls whose unsubscribe was not called during the pass.
\* The listeners of one effect schedule it once.
Due(ls, pass) ==
    LET kept == SelectSeq(ls, LAMBDA l :
                    ~(l.kind = "sub" /\ \E i \in 1..Len(pass) :
                                            pass[i].t = "unsub" /\ pass[i].h = l.h))
    IN Firsts([j \in 1..Len(kept) |-> Closure(kept[j])])

\* The listeners a pass invoked, in order.
Invoked(pass) ==
    LET evs == SelectSeq(pass, LAMBDA ev : ev.t \in {"call", "sched"})
    IN [j \in 1..Len(evs) |-> ClosureOf(evs[j])]

\* C21: the notification pass of a write invokes, in registration order, the
\* listeners the cell had when the pass began: none that was added during the
\* pass, none after its unsubscribe was called, and no other is left out
\* unless a listener throws.
C21_SnapshotOrder ==
    [][(lastOp'.kind = "write" /\ lastOp'.changed = 1) =>
          LET pass == PassOf(log')
              due == Due(listeners[lastOp'.cell], pass)
          IN /\ IsPrefix(Invoked(pass), due)
             /\ (\A i \in 1..Len(pass) : pass[i].t # "throw") => Invoked(pass) = due
             /\ \A i, j \in 1..Len(pass) :
                   (pass[j].t = "unsub" /\ pass[i].t = "call" /\ pass[i].h = pass[j].h)
                       => i < j]_vars

\* The first subscriber subscribed a second one during the pass; the second
\* was not called in that pass.
C21_Witness ==
    /\ scenario = "grow" /\ lastOp.kind = "write" /\ lastOp.changed = 1
    /\ Len(handles) = 2 /\ ~handles[1].dead /\ ~handles[2].dead
    /\ handles[1].fn = "subMore" /\ handles[2].fn = "spy"
    /\ Cardinality(CallsAt(1)) = 1 /\ CallsAt(2) = {}
    /\ Len(listeners["w"]) = 2

\* C22 as claimed: when no call is in progress, the reference count of every
\* effect is the number of cells on which it has a live tracking listener,
\* also when its body reads one cell more than once; it is never negative.
C22_RefCountCells ==
    \A e \in Effects(scenario) :
        effectRefCounts[e] = Cardinality(Deps(e)) /\ effectRefCounts[e] >= 0

\* C22 as amended: when no call is in progress, the reference count of every
\* effect is the number of live tracking listeners that refer to it, over all
\* cells, one for each read its body made in its last run; it is never
\* negative, and it is 0 exactly when the effect has no listener on any cell.
C22_RefCountListeners ==
    \A e \in Effects(scenario) :
        /\ effectRefCounts[e] = Cardinality(ListenersOf(e))
        /\ effectRefCounts[e] >= 0
        /\ effectRefCounts[e] = 0 <=> Deps(e) = {}

\* R reads r twice: after a write has run it again it has two listeners on
\* the one cell and count 2.
C22_Witness ==
    /\ scenario = "again" /\ "R" \in created
    /\ lastOp.kind = "write" /\ lastOp.changed = 1 /\ Runs("R") = 1
    /\ Deps("R") = {"r"} /\ Len(listeners["r"]) = 2
    /\ effectRefCounts["R"] = 2

\* Positions in the log of the events of one kind.
Kind(k) == {i \in 1..Len(log) : log[i].t = k}

\* C23: the pending set is empty when a flush completes and whenever no write
\* or action is in progress, also when effects run by the flush scheduled
\* further effects; an effect is in the set at most once, however many
\* listeners schedule it.
C23_PendingEmpty ==
    /\ writeDepth = 0 => pendingEffects = <<>>
    /\ \A i \in Kind("flushed") : log[i].vals = <<0>>
    /\ \A i \in Kind("flush") : log[i].vals[1] = log[i].vals[2]
    /\ \A e \in Effects(scenario) :
          Cardinality({i \in 1..Len(pendingEffects) : pendingEffects[i] = e}) <= 1

\* In the diamond the flush ran the effect of b, whose write scheduled the
\* effect of d while the flush was running; the flush completed.
C23_Witness ==
    /\ scenario = "diamond" /\ lastOp.kind = "write" /\ lastOp.changed = 1
    /\ \E i \in At("run", "fxB"), j \in At("sched", "fxD"), k \in Kind("flushed") :
          i < j /\ j < k
    /\ Kind("flushed") # {} /\ pendingEffects = <<>> /\ writeDepth = 0

\* C24: scheduleEffect is reached only inside a write transaction, so flushing
\* is never set and no flush is ever queued for a later tick: every flush is
\* a call made with the write depth back at 0, by the write or the action
\* that brought it there.
C24_NoDeferredFlush ==
    /\ ~flushing
    /\ microtasks = 0
    /\ \A i \in Kind("sched") : log[i].vals[1] >= 1
    /\ \A i \in Kind("flush") : log[i].vals[3] = 0
    /\ \A i \in Kind("run") :
          lastOp.kind \in {"write", "action"} => \E j \in Kind("flush") : j < i

\* A write inside an action block scheduled E two levels deep; the flush ran
\* it when the action had brought the depth back to 0.
C24_Witness ==
    /\ scenario = "quick" /\ "E" \in created /\ lastOp.kind = "action"
    /\ \E i \in At("sched", "E"), j \in Kind("flush"), k \in At("run", "E") :
          /\ i < j /\ j < k
          /\ log[i].vals = <<2>> /\ log[j].vals[3] = 0
    /\ ~flushing /\ microtasks = 0

\* C25: a read of a computed inside an action block returns the value the
\* computed had when the action was called, also after a write of the block
\* to a cell it reads: its derivation runs only after the block has ended,
\* and when the action returns the computed holds its derivation applied to
\* the final values.
C25_StaleInsideAction ==
    [][lastOp'.kind = "action" =>
          \A c \in ComputedCells(scenario) :
              /\ \A i \in At("get", EffectOf(c))' : log'[i].vals = <<value[c]>>
              /\ \A i \in At("run", EffectOf(c))' : \E j \in Kind("blockEnd")' : j < i
              /\ value'[c] = Derived(c)']_vars

\* The block wrote count and then read double: the read returned the old
\* value, and double holds the new one now.
C25_Witness ==
    /\ scenario = "quick" /\ lastOp.kind = "action" /\ lastOp.changed = 1
    /\ \E j \in At("sched", "fxDouble"), i \in At("get", "fxDouble") :
          j < i /\ log[i].vals # <<value["double"]>>
    /\ Runs("fxDouble") = 1
    /\ value["double"] = Mul(value["count"], 2)

\* The cells the body of e reads and the cells it writes.
ReadCells(e) ==
    UNION {IF st.op \in {"read", "readU", "current"} THEN {st.cell}
           ELSE IF st.op = "branch" THEN {st.cell, st.t, st.f}
           ELSE {} : st \in Range(Body(e))}
WrittenCells(e) == {st.cell : st \in {x \in Range(Body(e)) : x.op = "set"}}

\* The cells some body writes after reading a cell of cs, and the cells
\* reached from cs in 1..n such steps.
Downstream(sc, cs) ==
    UNION {IF ReadCells(e) \cap cs # {} THEN WrittenCells(e) ELSE {} : e \in Effects(sc)}
RECURSIVE After(_, _, _)
After(sc, cs, n) ==
    IF n = 0 THEN {}
    ELSE Downstream(sc, cs) \cup After(sc, Downstream(sc, cs), n - 1)

\* No body writes a cell that it reads, directly or through other bodies.
Acyclic(sc) == \A c \in Cells(sc) : c \notin After(sc, {c}, Cardinality(Cells(sc)))
\* No body has a throw statement.
NoThrowingBody(sc) ==
    \A e \in Effects(sc) : \A st \in Range(Body(e)) : st.op # "throwIf"

\* C26: in a program whose bodies write no cell they read, directly or
\* transitively, and do not throw, every call returns: a write or an action
\* that started a flush ran at most MaxRuns bodies, saw the pending set empty
\* and exited.
C26_Terminates ==
    (Acyclic(scenario) /\ NoThrowingBody(scenario)) =>
        /\ ~hung
        /\ Cardinality(Kind("run")) <= MaxRuns
        /\ (lastOp.kind \in {"write", "action"} /\ log # <<>>) =>
              /\ log[Len(log)].t = "exit"
              /\ Kind("flushed") # {}
              /\ pendingEffects = <<>>

\* One write in the diamond ran six bodies, some scheduled while the flush
\* was running, and returned.
C26_Witness ==
    /\ scenario = "diamond" /\ "spyD" \in created
    /\ lastOp.kind = "write" /\ lastOp.changed = 1
    /\ Cardinality(Kind("run")) >= 6
    /\ \E i \in Kind("run"), j \in Kind("sched") : i < j
    /\ log[Len(log)].t = "exit" /\ ~hung

\* The effect of scenario loop writes the cell it reads: a write of the
\* program did not return.
C26_CyclicHangs ==
    /\ scenario = "loop" /\ ~Acyclic("loop")
    /\ hung /\ lastOp.kind = "write" /\ "L" \in created

\* The subscriptions of plain cell c that were live when the last call began
\* and whose unsubscribe the call did not reach; c is the one plain cell of
\* the program, written by the program only.
Listening(c) ==
    {k \in 1..Len(handles) :
        /\ handles[k].cell = c /\ Atoms(scenario) = {c}
        /\ ~handles[k].dead /\ ~Unsubscribed(k)'}

\* A subscriber is called once for every write of the call that changed its
\* cell, inside the write: before the block of the action ends and before any
\* effect runs.
SubscriberCalls ==
    (lastOp'.kind \in {"write", "action"} /\ scenario \notin Throwing /\ ~hung') =>
        \A c \in Atoms(scenario) : \A k \in Listening(c) :
            /\ Cardinality(CallsAt(k)') = lastOp'.changed
            /\ \A i \in CallsAt(k)' : \A j \in Kind("blockEnd")' \cup Kind("run")' : i < j

\* An effect that reads a cell with a subscriber runs once for an action
\* whose writes changed the cell.
DependentRunsOnce ==
    (lastOp'.kind = "action" /\ lastOp'.changed >= 1 /\ scenario \notin Throwing) =>
        \A c \in Atoms(scenario) : \A k \in Listening(c) :
            \A e \in created \ disposed' : c \in Deps(e) => Runs(e)' = 1

\* C27: subscribers are not batched.  The callback of cell(fn) is called in
\* the notification pass of every write that changes the cell, also inside
\* an action block and before any effect runs; N such writes in one action
\* call it N times while an effect that reads the cell runs once.
C27_SubscribersNotBatched == [][SubscriberCalls /\ DependentRunsOnce]_vars

\* The part of C27 about the callbacks alone.
C27_CalledPerWrite == [][SubscriberCalls]_vars

====
